---- MODULE Spec2Model ----
(***************************************************************************)
(* A model of github.com/schigh/guid: the 26-byte GUID layout, its varint  *)
(* field codec, the base36 text form (String / Parse), the slug, and the   *)
(* OR-fold signer (Sign / DidSign).                                        *)
(*                                                                         *)
(* Bytes are integers 0..255.  A GUID and a SHA-256 sum are functions on   *)
(* 0-based indexes, as in the source; byte slices and strings are          *)
(* sequences of bytes.  A 64-bit integer is a record [neg, mag] whose      *)
(* magnitude is a little-endian sequence of base-128 digits without high   *)
(* zeros: the values of the timestamp field do not fit the integers of     *)
(* the model checker, and base 128 is the radix of the varint encoding.    *)
(***************************************************************************)
EXTENDS Integers, Sequences, FiniteSets, TLC

----------------------------------------------------------------------------
(* Constants of guid.go *)

byteSize == 26
fieldSize == 4
tsStart == 2
tsEnd == tsStart + 2 * fieldSize
fpStart == tsEnd
fpEnd == fpStart + fieldSize
icStart == fpEnd
icEnd == icStart + fieldSize
dcStart == icEnd
dcEnd == dcStart + fieldSize
rdStart == dcEnd
rdEnd == rdStart + fieldSize
base == 36
maxInt == 1679616

\* sha256.Size and the radix of a varint group (1 << 7)
shaSize == 32
varintRadix == 128

----------------------------------------------------------------------------
(* Bytes and bit operations *)

Byte == 0..255

RECURSIVE BitOr(_, _, _)
\* a | b on the low n bits
BitOr(a, b, n) ==
    IF n = 0 THEN 0
    ELSE (IF a % 2 = 1 \/ b % 2 = 1 THEN 1 ELSE 0) + 2 * BitOr(a \div 2, b \div 2, n - 1)

RECURSIVE BitAnd(_, _, _)
\* a & b on the low n bits
BitAnd(a, b, n) ==
    IF n = 0 THEN 0
    ELSE (IF a % 2 = 1 /\ b % 2 = 1 THEN 1 ELSE 0) + 2 * BitAnd(a \div 2, b \div 2, n - 1)

Or8(a, b) == BitOr(a, b, 8)
And8(a, b) == BitAnd(a, b, 8)

\* s[a:b] of a 0-indexed array or slice, as a sequence
Slice(f, a, b) == [k \in 1..(b - a) |-> f[a + k - 1]]

\* in[i] and in[a:b] of a byte slice held as a sequence
At(s, i) == s[i + 1]
Sub(s, a, b) == SubSeq(s, a + 1, b)

----------------------------------------------------------------------------
(* 64-bit integers: [neg |-> sign, mag |-> little-endian base-128 digits] *)

RECURSIVE Trim(_)
Trim(d) == IF d = <<>> THEN d
           ELSE IF d[Len(d)] = 0 THEN Trim(SubSeq(d, 1, Len(d) - 1)) ELSE d

RECURSIVE MulAddFrom(_, _, _, _)
\* the digits of d[i..] * m + c
MulAddFrom(d, i, m, c) ==
    IF i > Len(d)
    THEN IF c = 0 THEN <<>> ELSE <<c % varintRadix>> \o MulAddFrom(d, i, m, c \div varintRadix)
    ELSE LET v == d[i] * m + c
         IN <<v % varintRadix>> \o MulAddFrom(d, i + 1, m, v \div varintRadix)

\* magnitude * m + c, for small m and c
MulAdd(d, m, c) == Trim(MulAddFrom(d, 1, m, c))

RECURSIVE DivModFrom(_, _, _, _)
\* long division from the high digit i down, r the running remainder
DivModFrom(d, i, m, r) ==
    IF i = 0 THEN [q |-> <<>>, r |-> r]
    ELSE LET v == r * varintRadix + d[i]
             rest == DivModFrom(d, i - 1, m, v % m)
         IN [q |-> rest.q \o <<v \div m>>, r |-> rest.r]

\* magnitude divided by a small m: quotient and remainder
DivMod(d, m) == LET x == DivModFrom(d, Len(d), m, 0) IN [q |-> Trim(x.q), r |-> x.r]

Big(neg, mag) == [neg |-> neg /\ mag # <<>>, mag |-> mag]
BigZero == Big(FALSE, <<>>)

\* an integer of the model checker as a 64-bit integer
FromInt(v) == IF v < 0 THEN Big(TRUE, MulAdd(<<>>, 1, -v)) ELSE Big(FALSE, MulAdd(<<>>, 1, v))

RECURSIVE MagToInt(_)
MagToInt(d) == IF d = <<>> THEN 0 ELSE d[1] + varintRadix * MagToInt(Tail(d))

\* int32(x) of a value decoded from a 4-byte field (below 2^27 in magnitude)
ToInt(x) == IF x.neg THEN -MagToInt(x.mag) ELSE MagToInt(x.mag)

RECURSIVE FromDigits(_, _)
\* the magnitude written by big-endian digits ds in radix b
FromDigits(ds, b) ==
    IF ds = <<>> THEN <<>> ELSE MulAdd(FromDigits(SubSeq(ds, 1, Len(ds) - 1), b), b, ds[Len(ds)])

RECURSIVE ToDigits(_, _)
\* the big-endian digits of a magnitude in radix b (none for zero)
ToDigits(d, b) ==
    IF d = <<>> THEN <<>> ELSE LET x == DivMod(d, b) IN ToDigits(x.q, b) \o <<x.r>>

RECURSIVE Pred(_)
\* magnitude - 1, for a magnitude above zero
Pred(d) == IF d[1] > 0 THEN <<d[1] - 1>> \o Tail(d) ELSE <<varintRadix - 1>> \o Pred(Tail(d))

----------------------------------------------------------------------------
(* encoding/binary: PutVarint and Varint on a field of the GUID *)

\* ux := uint64(x) << 1; if x < 0 { ux = ^ux }: the base-128 groups of ux
ZigZag(x) == IF x.neg THEN MulAdd(Trim(Pred(x.mag)), 2, 1) ELSE MulAdd(x.mag, 2, 0)

\* PutUvarint: every group but the last carries the continuation bit 0x80
UvarintBytes(ux) ==
    IF ux = <<>> THEN <<0>>
    ELSE [k \in 1..Len(ux) |-> IF k < Len(ux) THEN ux[k] + varintRadix ELSE ux[k]]

\* binary.PutVarint(g[start:end], x): the bytes of the encoding replace the
\* first bytes of the field and the other bytes of the field stay as they
\* were.  (PutVarint panics on a slice shorter than the encoding; a
\* millisecond count of an int64 of nanoseconds takes at most 7 of the 8
\* bytes and a filtered value at most 4 of the 4.)
PutVarintAt(g, start, end, x) ==
    LET enc == UvarintBytes(ZigZag(x))
    IN [i \in DOMAIN g |-> IF i >= start /\ i < start + Len(enc) /\ i < end
                           THEN enc[i - start + 1] ELSE g[i]]

\* the number of bytes PutVarint writes for x
VarintLen(x) == Len(UvarintBytes(ZigZag(x)))

RECURSIVE UvarintFrom(_, _)
\* binary.Uvarint from byte i of buf: the groups up to the first byte below
\* 0x80, or "short" when the buffer ends first (Uvarint then returns 0)
UvarintFrom(buf, i) ==
    IF i > Len(buf) THEN [ok |-> FALSE, ux |-> <<>>]
    ELSE IF buf[i] < varintRadix THEN [ok |-> TRUE, ux |-> <<buf[i]>>]
    ELSE LET rest == UvarintFrom(buf, i + 1)
         IN [ok |-> rest.ok, ux |-> <<buf[i] - varintRadix>> \o rest.ux]

\* a decoder that does not stop at the first byte below 0x80: it takes a
\* group of every byte of the field
VarintAllBytes(buf) ==
    LET h == DivMod(Trim([k \in 1..Len(buf) |-> buf[k] % varintRadix]), 2)
    IN IF h.r = 1 THEN Big(TRUE, MulAdd(h.q, 1, 1)) ELSE Big(FALSE, h.q)

\* binary.Varint(buf): x := int64(ux >> 1); if ux&1 != 0 { x = ^x }
Varint(buf) ==
    LET u == UvarintFrom(buf, 1)
        h == DivMod(Trim(u.ux), 2)
    IN IF ~u.ok THEN BigZero
       ELSE IF h.r = 1 THEN Big(TRUE, MulAdd(h.q, 1, 1)) ELSE Big(FALSE, h.q)

----------------------------------------------------------------------------
(* The GUID, its setters and getters *)

\* GUID{}: the zero value of [byteSize]byte
ZeroGUID == [i \in 0..(byteSize - 1) |-> 0]

\* WithPrefixBytes(b1, b2)(g)
WithPrefixBytes(g, b1, b2) == [g EXCEPT ![0] = b1, ![1] = b2]

PrefixBytes(g) == <<g[0], g[1]>>

nanosPerMilli == 1000000

\* time.Duration(t.UnixNano()).Milliseconds(): the int64 nanosecond count
\* divided by 1e6, truncated toward zero
Milliseconds(ns) == Big(ns.neg, DivMod(ns.mag, nanosPerMilli).q)

\* g.SetTime(t), t given by its t.UnixNano()
SetTime(g, ns) == PutVarintAt(g, tsStart, tsEnd, Milliseconds(ns))

\* time.Unix(0, msec*1e6).UnixNano() of g.Time()
Time(g) == LET msec == Varint(Slice(g, tsStart, tsEnd))
           IN Big(msec.neg, MulAdd(msec.mag, nanosPerMilli, 0))

\* filter(v): the value reduced modulo maxInt into [0, maxInt)
filter(v) == v % maxInt

\* SetFingerprint without the filter
SetFingerprintUnfiltered(g, v) == PutVarintAt(g, fpStart, fpEnd, FromInt(v))

SetFingerprint(g, v) == PutVarintAt(g, fpStart, fpEnd, FromInt(filter(v)))

Fingerprint(g) == ToInt(Varint(Slice(g, fpStart, fpEnd)))

\* SetCounters that writes the decrement counter into the field after its own
SetCountersShifted(g, incr, decr) ==
    PutVarintAt(PutVarintAt(g, icStart, icEnd, FromInt(filter(incr))),
                rdStart, rdEnd, FromInt(filter(decr)))

SetCounters(g, incr, decr) ==
    PutVarintAt(PutVarintAt(g, icStart, icEnd, FromInt(filter(incr))),
                dcStart, dcEnd, FromInt(filter(decr)))

Counters(g) == <<ToInt(Varint(Slice(g, icStart, icEnd))), ToInt(Varint(Slice(g, dcStart, dcEnd)))>>

SetRandom(g, v) == PutVarintAt(g, rdStart, rdEnd, FromInt(filter(v)))

Random(g) == ToInt(Varint(Slice(g, rdStart, rdEnd)))

----------------------------------------------------------------------------
(* Text: strconv.FormatInt, strconv.ParseInt, leftPad, String, Slug, Parse *)

\* the ASCII codes the text functions test for
ch == [zero |-> 48, nine |-> 57, upperA |-> 65, upperF |-> 70, upperZ |-> 90,
       lowerA |-> 97, lowerF |-> 102, lowerZ |-> 122, plus |-> 43, minus |-> 45]

\* the digit character of strconv: "0123456789abcdefghijklmnopqrstuvwxyz"[d]
DigitChar(d) == IF d < 10 THEN ch.zero + d ELSE ch.lowerA + (d - 10)

\* strconv.FormatInt(x, b)
FormatInt(x, b) ==
    LET ds == ToDigits(x.mag, b)
        txt == [k \in 1..Len(ds) |-> DigitChar(ds[k])]
    IN IF x.mag = <<>> THEN <<ch.zero>>
       ELSE IF x.neg THEN <<ch.minus>> \o txt ELSE txt

\* leftPad(s, n): s with zero-digit characters added on the left up to n
\* characters; a longer s is returned as it is
leftPad(s, n) == IF Len(s) >= n THEN s ELSE [k \in 1..(n - Len(s)) |-> ch.zero] \o s

\* leftPad(strconv.FormatInt(v, base), size) of the value decoded from the
\* field g[start:end]
FieldText(g, start, end, size) ==
    leftPad(FormatInt(Varint(Slice(g, start, end)), base), size)

\* g.String()
String(g) ==
    LET nanos == FieldText(g, tsStart, tsEnd, fieldSize * 2)
        fingerprint == FieldText(g, fpStart, fpEnd, fieldSize)
        incr == FieldText(g, icStart, icEnd, fieldSize)
        decr == FieldText(g, dcStart, dcEnd, fieldSize)
        random == FieldText(g, rdStart, rdEnd, fieldSize)
    IN Slice(g, 0, 2) \o nanos \o fingerprint \o incr \o decr \o random

\* the slug's positions with the counters taken one character early
SlugIndexesEarly == <<6, 7, 8, 9, 15, 16, 19, 20, 22, 23, 24, 25>>

\* the positions of gg the slug is made of, in order
SlugIndexes == <<6, 7, 8, 9, 16, 17, 20, 21, 22, 23, 24, 25>>

\* a slug that keeps the 2nd and 3rd characters of the fingerprint in place
\* of the last two of the increment counter
SlugWithFingerprint(g) ==
    LET gg == String(g)
        idx == <<6, 7, 8, 9, 11, 12, 20, 21, 22, 23, 24, 25>>
    IN [k \in 1..Len(idx) |-> At(gg, idx[k])]

\* g.Slug()
Slug(g) == LET gg == String(g) IN [k \in 1..Len(SlugIndexes) |-> At(gg, SlugIndexes[k])]

\* the digit value of a character in strconv.ParseUint, -1 when it has none:
\* '0'..'9', or a letter of either case (lower(c) = c | 0x20)
DigitVal(c) ==
    IF c >= ch.zero /\ c <= ch.nine THEN c - ch.zero
    ELSE IF c >= ch.lowerA /\ c <= ch.lowerZ THEN c - ch.lowerA + 10
    ELSE IF c >= ch.upperA /\ c <= ch.upperZ THEN c - ch.upperA + 10
    ELSE -1

\* strconv.ParseInt(s, b, 64) of a string of at most 8 characters (no value
\* of so few base36 digits is out of the int64 range): an optional sign, then
\* one digit or more, each below the base
ParseInt(s, b) ==
    LET signed == s # <<>> /\ s[1] \in {ch.plus, ch.minus}
        body == IF signed THEN Tail(s) ELSE s
        ds == [k \in 1..Len(body) |-> DigitVal(body[k])]
    IN IF body = <<>> \/ \E k \in 1..Len(ds) : ds[k] < 0 \/ ds[k] >= b
       THEN [ok |-> FALSE, v |-> BigZero]
       ELSE [ok |-> TRUE, v |-> Big(signed /\ s[1] = ch.minus, FromDigits(ds, b))]

\* time.Unix(0, t*1e6).UnixNano(): the nanosecond count Parse hands to SetTime
\* (t has at most 8 base36 digits, so t*1e6 stays within int64)
UnixNanoOfMillis(t) == Big(t.neg, MulAdd(t.mag, nanosPerMilli, 0))

ErrNone == "nil"
ErrLength == "the byte slice must be exactly 26 bytes in length"
ErrTime == "invalid time value"
ErrFingerprint == "invalid fingerprint value"
ErrIncr == "invalid increment counter value"
ErrDecr == "invalid decrement counter value"
ErrRandom == "invalid random value"

Fail(err) == [g |-> ZeroGUID, err |-> err]

\* ParseFields with the decrement counter examined before the increment one
ParseFieldsDecrFirst(in) ==
    LET g0 == WithPrefixBytes(ZeroGUID, At(in, 0), At(in, 1))
        t == ParseInt(Sub(in, tsStart, tsEnd), base)
        fingerprint == ParseInt(Sub(in, fpStart, fpEnd), base)
        incr == ParseInt(Sub(in, icStart, icEnd), base)
        decr == ParseInt(Sub(in, dcStart, dcEnd), base)
        r == ParseInt(Sub(in, rdStart, rdEnd), base)
    IN IF ~t.ok THEN Fail(ErrTime)
       ELSE IF ~fingerprint.ok THEN Fail(ErrFingerprint)
       ELSE IF ~decr.ok THEN Fail(ErrDecr)
       ELSE IF ~incr.ok THEN Fail(ErrIncr)
       ELSE IF ~r.ok THEN Fail(ErrRandom)
       ELSE [g |-> SetRandom(
                     SetCounters(
                       SetFingerprint(SetTime(g0, UnixNanoOfMillis(t.v)), ToInt(fingerprint.v)),
                       ToInt(incr.v), ToInt(decr.v)),
                     ToInt(r.v)),
             err |-> ErrNone]

\* c | 0x20 for a letter: the lower case of strconv's lower(c)
ToLower(c) == IF c >= ch.upperA /\ c <= ch.upperZ THEN c + 32 ELSE c

\* ParseFields with the prefix bytes lowercased like the digits of the fields
ParseFieldsLowerPrefix(in) ==
    LET g0 == WithPrefixBytes(ZeroGUID, ToLower(At(in, 0)), ToLower(At(in, 1)))
        t == ParseInt(Sub(in, tsStart, tsEnd), base)
        fingerprint == ParseInt(Sub(in, fpStart, fpEnd), base)
        incr == ParseInt(Sub(in, icStart, icEnd), base)
        decr == ParseInt(Sub(in, dcStart, dcEnd), base)
        r == ParseInt(Sub(in, rdStart, rdEnd), base)
    IN IF ~t.ok THEN Fail(ErrTime)
       ELSE IF ~fingerprint.ok THEN Fail(ErrFingerprint)
       ELSE IF ~incr.ok THEN Fail(ErrIncr)
       ELSE IF ~decr.ok THEN Fail(ErrDecr)
       ELSE IF ~r.ok THEN Fail(ErrRandom)
       ELSE [g |-> SetRandom(
                     SetCounters(
                       SetFingerprint(SetTime(g0, UnixNanoOfMillis(t.v)), ToInt(fingerprint.v)),
                       ToInt(incr.v), ToInt(decr.v)),
                     ToInt(r.v)),
             err |-> ErrNone]

\* Parse after the length check: the prefix, then one field after the other
ParseFields(in) ==
    LET g0 == WithPrefixBytes(ZeroGUID, At(in, 0), At(in, 1))
        t == ParseInt(Sub(in, tsStart, tsEnd), base)
        fingerprint == ParseInt(Sub(in, fpStart, fpEnd), base)
        incr == ParseInt(Sub(in, icStart, icEnd), base)
        decr == ParseInt(Sub(in, dcStart, dcEnd), base)
        r == ParseInt(Sub(in, rdStart, rdEnd), base)
    IN IF ~t.ok THEN Fail(ErrTime)
       ELSE IF ~fingerprint.ok THEN Fail(ErrFingerprint)
       ELSE IF ~incr.ok THEN Fail(ErrIncr)
       ELSE IF ~decr.ok THEN Fail(ErrDecr)
       ELSE IF ~r.ok THEN Fail(ErrRandom)
       ELSE [g |-> SetRandom(
                     SetCounters(
                       SetFingerprint(SetTime(g0, UnixNanoOfMillis(t.v)), ToInt(fingerprint.v)),
                       ToInt(incr.v), ToInt(decr.v)),
                     ToInt(r.v)),
             err |-> ErrNone]

\* Parse with a length check that lets longer inputs through
ParseAtLeast(in) == IF Len(in) < byteSize THEN Fail(ErrLength) ELSE ParseFields(in)

\* Parse(in): the GUID and the error
Parse(in) == IF Len(in) # byteSize THEN Fail(ErrLength) ELSE ParseFields(in)

----------------------------------------------------------------------------
(* The binary and gob adapters *)

\* g.MarshalBinary(): data = g[:], the 26 bytes of the GUID; err is nil
MarshalBinary(g) == [k \in 1..byteSize |-> g[k - 1]]

\* recv.UnmarshalBinary(data): the receiver afterwards and the error; the
\* data goes to Parse, and the receiver is assigned only when Parse succeeds
UnmarshalBinary(recv, data) ==
    LET r == Parse(data)
    IN IF r.err # ErrNone THEN [g |-> recv, err |-> r.err] ELSE [g |-> r.g, err |-> ErrNone]

\* g.GobEncode()
GobEncode(g) == MarshalBinary(g)

\* recv.GobDecode(data)
GobDecode(recv, data) == UnmarshalBinary(recv, data)

----------------------------------------------------------------------------
(* The signer: encoding/hex, Sign and DidSign *)

\* "0123456789abcdef"[v]
HexChar(v) == IF v < 10 THEN ch.zero + v ELSE ch.lowerA + (v - 10)

\* hex.Encode(out, sum[:]) of an array of n bytes
HexEncode(sum, n) ==
    [k \in 1..(2 * n) |-> IF k % 2 = 1 THEN HexChar(sum[(k - 1) \div 2] \div 16)
                          ELSE HexChar(sum[(k - 1) \div 2] % 16)]

\* the value of a hex character of either case, -1 when it is none
HexVal(c) ==
    IF c >= ch.zero /\ c <= ch.nine THEN c - ch.zero
    ELSE IF c >= ch.lowerA /\ c <= ch.lowerF THEN c - ch.lowerA + 10
    ELSE IF c >= ch.upperA /\ c <= ch.upperF THEN c - ch.upperA + 10
    ELSE -1

\* hex.DecodeString(in): the bytes (0-indexed) and whether err == nil; an
\* invalid character or an odd length is an error
HexDecode(in) ==
    IF Len(in) % 2 = 1 \/ \E k \in 1..Len(in) : HexVal(in[k]) < 0
    THEN [ok |-> FALSE, n |-> 0, sum |-> <<>>]
    ELSE [ok |-> TRUE, n |-> Len(in) \div 2,
          sum |-> [i \in 0..(Len(in) \div 2 - 1) |->
                     16 * HexVal(in[2 * i + 1]) + HexVal(in[2 * i + 2])]]

\* the loop of Sign and DidSign: i runs over 2..13 and j starts at
\* sha256.Size - 1 and goes down by one per round
FoldRounds == 2..13
JOf(i) == (shaSize - 1) - (i - 2)

RECURSIVE FoldFrom(_, _, _)
\* the rounds i, i+1, ..., 13 of Sign's loop on sum
FoldFrom(g, sum, i) ==
    IF i >= 14 THEN sum
    ELSE LET j == JOf(i)
             s1 == [sum EXCEPT ![i - 2] = Or8(sum[i - 2], g[i])]
             s2 == [s1 EXCEPT ![j] = Or8(s1[j], g[j - 6])]
         IN FoldFrom(g, s2, i + 1)

\* the fold without the prefix
FoldWithoutPrefix(g, sum) == FoldFrom(g, sum, 2)

\* a fold of GUID bytes 0..13 only: the forward half of the loop and the prefix
FoldHeadOnly(g, sum) ==
    [p \in 0..(shaSize - 1) |->
       IF p < 12 THEN Or8(sum[p], g[p + 2])
       ELSE IF p < 14 THEN Or8(sum[p], g[p - 12])
       ELSE sum[p]]

\* the folded sum of Sign: the loop, then the prefix
Fold(g, sum) ==
    LET s0 == FoldFrom(g, sum, 2)
        s1 == [s0 EXCEPT ![12] = Or8(s0[12], g[0])]
    IN [s1 EXCEPT ![13] = Or8(s1[13], g[1])]

\* g.Sign(in), where digest is sha256.Sum256(in); <<>> is the nil slice
Sign(g, in, digest) ==
    IF Len(in) = 0 THEN <<>> ELSE HexEncode(Fold(g, digest), shaSize)

\* DidSign with a length check that lets longer sums through
DidSignAtLeast(g, in) ==
    LET d == HexDecode(in)
        sum == d.sum
    IN IF ~d.ok THEN FALSE
       ELSE IF d.n < shaSize THEN FALSE
       ELSE IF And8(sum[12], g[0]) # g[0] THEN FALSE
       ELSE IF And8(sum[13], g[1]) # g[1] THEN FALSE
       ELSE \A i \in FoldRounds :
               /\ And8(sum[i - 2], g[i]) = g[i]
               /\ And8(sum[JOf(i)], g[JOf(i) - 6]) = g[JOf(i) - 6]

\* DidSign without the tests of the loop's second half
DidSignHeadOnly(g, in) ==
    LET d == HexDecode(in)
        sum == d.sum
    IN IF ~d.ok THEN FALSE
       ELSE IF d.n # shaSize THEN FALSE
       ELSE IF And8(sum[12], g[0]) # g[0] THEN FALSE
       ELSE IF And8(sum[13], g[1]) # g[1] THEN FALSE
       ELSE \A i \in FoldRounds : And8(sum[i - 2], g[i]) = g[i]

\* g.DidSign(in)
DidSign(g, in) ==
    LET d == HexDecode(in)
        sum == d.sum
    IN IF ~d.ok THEN FALSE
       ELSE IF d.n # shaSize THEN FALSE
       ELSE IF And8(sum[12], g[0]) # g[0] THEN FALSE
       ELSE IF And8(sum[13], g[1]) # g[1] THEN FALSE
       ELSE \A i \in FoldRounds :
               /\ And8(sum[i - 2], g[i]) = g[i]
               /\ And8(sum[JOf(i)], g[JOf(i) - 6]) = g[JOf(i) - 6]

----------------------------------------------------------------------------
(* The state: a caller holding a GUID and calling the package's functions *)

VARIABLES
    g,        \* the GUID the caller holds
    op,       \* the last call: [name, args]
    in,       \* the bytes last handed to Parse, Sign or DidSign
    out,      \* the bytes last returned by String, Slug or Sign
    parsed,   \* what the last Parse returned: [g, err]
    sum,      \* sha256.Sum256(in) of the last Sign
    signed,   \* what the last DidSign returned
    other     \* a second GUID of the caller: other := g.SetTime(t), or the
              \* receiver of other.UnmarshalBinary(data)

vars == <<g, op, in, out, parsed, sum, signed, other>>

Call(name, args) == [name |-> name, args |-> args]
NoCall == Call("none", <<>>)
NoParse == [g |-> ZeroGUID, err |-> "none"]
ZeroSum == [i \in 0..(shaSize - 1) |-> 0]

\* a number written in decimal, as a 64-bit integer
Dec(neg, ds) == Big(neg, FromDigits(ds, 10))

\* the times handed to SetTime, as t.UnixNano(): the timestamp of the tests
\* plus a part below the millisecond, and 1.999999 ms after the epoch
ValidTimes ==
    { Dec(FALSE, <<1,6,2,2,2,2,2,2,2,2,2,2,2,9,9,9,9,9,9>>),
      Dec(FALSE, <<1,9,9,9,9,9,9>>) }

\* also the first millisecond count of 9 base36 digits (36^8 ms, in 2059)
\* and a time before 1970
TimeInputs ==
    { Dec(FALSE, <<1,6,2,2,2,2,2,2,2,2,2,2,2,9,9,9,9,9,9>>),
      Dec(FALSE, <<2,8,2,1,1,0,9,9,0,7,4,5,6,0,0,0,0,0,0>>),
      Dec(TRUE, <<1,9,9,9,9,9,9>>) }

MaxInt32 == 2147483647
MinInt32 == -MaxInt32 - 1

\* the int32 values handed to the setters of the 4-byte fields: within
\* [0, maxInt), with encodings of different lengths
ValidFingerprints == {2222, maxInt - 1}
ValidCounters == {<<500, 1000>>, <<0, maxInt - 1>>}
ValidRandoms == {315530, 7}

\* and any int32
FingerprintInputs == {2222, maxInt + 1, -1}
CounterInputs == {<<500, 1000>>, <<maxInt, -1>>}
RandomInputs == {315530, MaxInt32, MinInt32}

\* 'x', 'o'
PrefixInputs == {<<120, 111>>}

Reset == /\ in' = <<>>
         /\ out' = <<>>
         /\ parsed' = NoParse
         /\ UNCHANGED <<sum, signed, other>>

\* g = WithPrefixBytes(b1, b2)(g)
DoWithPrefixBytes ==
    \E b \in PrefixInputs :
        /\ g' = WithPrefixBytes(g, b[1], b[2])
        /\ op' = Call("WithPrefixBytes", b)
        /\ Reset

\* g = g.SetTime(t), t among times
DoSetTime(times) ==
    \E t \in times :
        /\ g' = SetTime(g, t)
        /\ op' = Call("SetTime", <<t>>)
        /\ Reset

\* g = g.SetFingerprint(v), v among values
DoSetFingerprint(values) ==
    \E v \in values :
        /\ g' = SetFingerprint(g, v)
        /\ op' = Call("SetFingerprint", <<v>>)
        /\ Reset

\* g = g.SetCounters(incr, decr), the two among pairs
DoSetCounters(pairs) ==
    \E c \in pairs :
        /\ g' = SetCounters(g, c[1], c[2])
        /\ op' = Call("SetCounters", c)
        /\ Reset

\* g = g.SetRandom(v), v among values
DoSetRandom(values) ==
    \E v \in values :
        /\ g' = SetRandom(g, v)
        /\ op' = Call("SetRandom", <<v>>)
        /\ Reset

\* s := g.String()
DoString ==
    /\ op.name \notin {"String", "Slug", "Parse"}
    /\ out' = String(g)
    /\ op' = Call("String", <<>>)
    /\ in' = <<>>
    /\ parsed' = NoParse
    /\ UNCHANGED <<g, sum, signed, other>>

\* s := g.Slug()
DoSlug ==
    /\ op.name \notin {"String", "Slug", "Parse"}
    /\ out' = Slug(g)
    /\ op' = Call("Slug", <<>>)
    /\ in' = <<>>
    /\ parsed' = NoParse
    /\ UNCHANGED <<g, sum, signed, other>>

\* Parse([]byte(s)) of the text String just returned
DoParseBack ==
    /\ op.name = "String"
    /\ in' = out
    /\ parsed' = Parse(out)
    /\ op' = Call("Parse", <<>>)
    /\ UNCHANGED <<g, out, sum, signed, other>>

Init ==
    /\ g = ZeroGUID
    /\ op = NoCall
    /\ in = <<>>
    /\ out = <<>>
    /\ parsed = NoParse
    /\ sum = ZeroSum
    /\ signed = FALSE
    /\ other = ZeroGUID

\* a GUID built from the zero GUID with any int32 and any time
Next ==
    \/ DoWithPrefixBytes
    \/ DoSetTime(TimeInputs)
    \/ DoSetFingerprint(FingerprintInputs)
    \/ DoSetCounters(CounterInputs)
    \/ DoSetRandom(RandomInputs)
    \/ DoString
    \/ DoSlug
    \/ DoParseBack

\* a GUID built from the zero GUID with values of [0, maxInt) and times whose
\* millisecond counts have at most 8 base36 digits
NextInRange ==
    \/ DoWithPrefixBytes
    \/ DoSetTime(ValidTimes)
    \/ DoSetFingerprint(ValidFingerprints)
    \/ DoSetCounters(ValidCounters)
    \/ DoSetRandom(ValidRandoms)
    \/ DoString
    \/ DoSlug
    \/ DoParseBack

Spec == Init /\ [][Next]_vars

SpecInRange == Init /\ [][NextInRange]_vars

----------------------------------------------------------------------------
(* A caller that builds a GUID, marshals it and unmarshals the data into
   another GUID: data, _ := g.MarshalBinary(); err := other.UnmarshalBinary(data) *)

BinaryCalls == {"MarshalBinary", "UnmarshalBinary", "GobEncode", "GobDecode"}

\* data, _ := g.MarshalBinary()
DoMarshalBinary ==
    /\ op.name \notin BinaryCalls
    /\ out' = MarshalBinary(g)
    /\ op' = Call("MarshalBinary", <<>>)
    /\ in' = <<>>
    /\ parsed' = NoParse
    /\ UNCHANGED <<g, sum, signed, other>>

\* err := other.UnmarshalBinary(data), data what MarshalBinary just returned
DoUnmarshalBinary ==
    /\ op.name = "MarshalBinary"
    /\ in' = out
    /\ parsed' = UnmarshalBinary(other, out)
    /\ other' = parsed'.g
    /\ op' = Call("UnmarshalBinary", <<>>)
    /\ UNCHANGED <<g, out, sum, signed>>

\* data, _ := g.GobEncode()
DoGobEncode ==
    /\ op.name \notin BinaryCalls
    /\ out' = GobEncode(g)
    /\ op' = Call("GobEncode", <<>>)
    /\ in' = <<>>
    /\ parsed' = NoParse
    /\ UNCHANGED <<g, sum, signed, other>>

\* err := other.GobDecode(data), data what GobEncode just returned
DoGobDecode ==
    /\ op.name = "GobEncode"
    /\ in' = out
    /\ parsed' = GobDecode(other, out)
    /\ other' = parsed'.g
    /\ op' = Call("GobDecode", <<>>)
    /\ UNCHANGED <<g, out, sum, signed>>

NextBinary ==
    \/ DoWithPrefixBytes
    \/ DoSetTime(ValidTimes)
    \/ DoSetFingerprint(ValidFingerprints)
    \/ DoSetCounters(ValidCounters)
    \/ DoSetRandom(ValidRandoms)
    \/ DoMarshalBinary
    \/ DoUnmarshalBinary
    \/ DoGobEncode
    \/ DoGobDecode

SpecBinary == Init /\ [][NextBinary]_vars

----------------------------------------------------------------------------
(* A caller that keeps the GUID it calls a setter on: other := g.SetTime(t).
   The receiver of a setter is a GUID, an array passed by value, and
   WithPrefixBytes returns a func(GUID) GUID: the callee writes to its copy. *)

Setters == {"WithPrefixBytes", "SetTime", "SetFingerprint", "SetCounters", "SetRandom"}

\* what is common to the kept calls: the call returns a GUID and nothing else
Kept == /\ in' = <<>>
        /\ out' = <<>>
        /\ parsed' = NoParse
        /\ UNCHANGED <<g, sum, signed>>

\* other := WithPrefixBytes(b1, b2)(g)
KeepWithPrefixBytes ==
    \E b \in PrefixInputs :
        /\ other' = WithPrefixBytes(g, b[1], b[2])
        /\ op' = Call("WithPrefixBytes", b)
        /\ Kept

\* other := g.SetTime(t)
KeepSetTime ==
    \E t \in TimeInputs :
        /\ other' = SetTime(g, t)
        /\ op' = Call("SetTime", <<t>>)
        /\ Kept

\* other := g.SetFingerprint(v)
KeepSetFingerprint ==
    \E v \in FingerprintInputs :
        /\ other' = SetFingerprint(g, v)
        /\ op' = Call("SetFingerprint", <<v>>)
        /\ Kept

\* other := g.SetCounters(incr, decr)
KeepSetCounters ==
    \E c \in CounterInputs :
        /\ other' = SetCounters(g, c[1], c[2])
        /\ op' = Call("SetCounters", c)
        /\ Kept

\* other := g.SetRandom(v)
KeepSetRandom ==
    \E v \in RandomInputs :
        /\ other' = SetRandom(g, v)
        /\ op' = Call("SetRandom", <<v>>)
        /\ Kept

\* g = other: the caller goes on with the GUID the setter returned
DoAssign ==
    /\ op.name \in Setters
    /\ g' = other
    /\ op' = Call("Assign", <<>>)
    /\ UNCHANGED <<in, out, parsed, sum, signed, other>>

NextFrame ==
    \/ KeepWithPrefixBytes
    \/ KeepSetTime
    \/ KeepSetFingerprint
    \/ KeepSetCounters
    \/ KeepSetRandom
    \/ DoAssign

SpecFrame == Init /\ [][NextFrame]_vars

----------------------------------------------------------------------------------------------------------------------------------------------
(* Parsing texts that come from outside *)

\* "xokp8l85n201pq00dw00rs6rgq", the text of the tests
TestText == <<120, 111, 107, 112, 56, 108, 56, 53, 110, 50, 48, 49, 112,
              113, 48, 48, 100, 119, 48, 48, 114, 115, 54, 114, 103, 113>>

\* the UTF-8 bytes of U+1F435, the multi-byte character of the tests
Monkey == <<240, 159, 144, 181>>

\* s with the bytes bs written from 0-based position p on (s keeps its length)
Put(s, p, bs) ==
    [k \in 1..Len(s) |-> IF k - 1 >= p /\ k - 1 < p + Len(bs) THEN bs[k - p] ELSE s[k]]

IsUpper(c) == c >= ch.upperA /\ c <= ch.upperZ
IsLower(c) == c >= ch.lowerA /\ c <= ch.lowerZ
ToUpper(c) == IF IsLower(c) THEN c - 32 ELSE c
SwapCase(c) == IF IsLower(c) THEN c - 32 ELSE IF IsUpper(c) THEN c + 32 ELSE c

\* s with the letters at the 0-based positions of ps in the other case
SwapCaseAt(s, ps) == [k \in 1..Len(s) |-> IF k - 1 \in ps THEN SwapCase(s[k]) ELSE s[k]]

\* the longest input handed to Parse
MaxLen == 30

\* bytes written into the text: the first byte of a multi-byte character,
\* '-' and '+' (a sign where a field starts), '_'
EditBytes == {240, ch.minus, ch.plus, 95}

\* the first n bytes of s
Take(s, n) == SubSeq(s, 1, IF n < Len(s) THEN n ELSE Len(s))

\* the byte slices handed to Parse
ParseInputs ==
    LET long == TestText \o TestText
        longMonkey == Put(TestText, 14, <<240>>) \o Monkey \o TestText
    IN  \* every length up to MaxLen, of a text whose fields are well formed
        \* and of one that holds a multi-byte character
        {Take(long, n) : n \in 0..MaxLen}
        \cup {Take(longMonkey, n) : n \in 0..MaxLen}
        \* the 26-character text of the tests with U+1F435 for its 15th
        \* character: 29 bytes
        \cup {SubSeq(TestText, 1, 14) \o Monkey \o SubSeq(TestText, 16, 26)}
        \* 26 bytes with the 4 bytes of U+1F435 somewhere
        \cup {Put(TestText, p, Monkey) : p \in 0..22}
        \* 26 bytes with one or two bytes replaced
        \cup {Put(TestText, p, <<b>>) : p \in 0..25, b \in EditBytes}
        \cup {Put(Put(TestText, p, <<b>>), q, <<c>>) :
                p \in 2..25, q \in 2..25, b \in EditBytes, c \in EditBytes}
        \* 26 bytes with letters in upper case
        \cup {SwapCaseAt(TestText, ps) : ps \in {0..25, 2..25, 0..1, {0}, {3, 12, 25}}}

\* g, err := Parse(in)
DoParse ==
    /\ op.name = "none"
    /\ parsed' = Parse(in)
    /\ g' = parsed'.g
    /\ op' = Call("Parse", <<>>)
    /\ UNCHANGED <<in, out, sum, signed, other>>

InitParse ==
    /\ in \in ParseInputs
    /\ g = ZeroGUID
    /\ op = NoCall
    /\ out = <<>>
    /\ parsed = NoParse
    /\ sum = ZeroSum
    /\ signed = FALSE
    /\ other = ZeroGUID

NextParse == DoParse

SpecParse == InitParse /\ [][NextParse]_vars

----------------------------------------------------------------------------
(* Signing and verifying *)

\* "tjl77zbrfh43jk00qs4un0qr57", a GUID text of signer_test.go
TjlText == <<116, 106, 108, 55, 55, 122, 98, 114, 102, 104, 52, 51, 106, 107,
             48, 48, 113, 115, 52, 117, 110, 48, 113, 114, 53, 55>>

\* "l6l77zbrfh43jk00rf4umdycxx", the other GUID text of signer_test.go: the
\* timestamp and fingerprint of TjlText, another prefix, counters and random
L6lText == <<108, 54, 108, 55, 55, 122, 98, 114, 102, 104, 52, 51, 106, 107,
             48, 48, 114, 102, 52, 117, 109, 100, 121, 99, 120, 120>>

\* the GUIDs that sign: the zero GUID, 26 bytes of 0xff, the parsed texts of
\* the tests, the second of them under the prefix of the first, and a GUID
\* with a different byte at every index
SignGUIDs ==
    { ZeroGUID,
      [i \in 0..(byteSize - 1) |-> 255],
      Parse(TjlText).g,
      Parse(L6lText).g,
      WithPrefixBytes(Parse(L6lText).g, TjlText[1], TjlText[2]),
      Parse(TestText).g,
      [i \in 0..(byteSize - 1) |-> (37 * i + 11) % 256] }

\* sha256.Sum256("music television")
MusicSum ==
    [i \in 0..(shaSize - 1) |->
       <<53, 163, 38, 25, 56, 101, 254, 255, 137, 208, 6, 31, 243, 102, 36, 107,
         161, 254, 92, 23, 63, 131, 159, 147, 170, 19, 139, 53, 96, 5, 143, 124>>[i + 1]]

OnesSum == [i \in 0..(shaSize - 1) |-> 255]

\* what sha256.Sum256 may return: SHA-256 is not modelled, a sum is any of
\* these 32-byte values
Digests == {ZeroSum, OnesSum, MusicSum, [i \in 0..(shaSize - 1) |-> (101 * i + 7) % 256]}

\* the longest data handed to Sign
MaxData == 2

\* the data handed to Sign: 0 to MaxData bytes 'x'
SignData == {[k \in 1..n |-> 120] : n \in 0..MaxData}

RECURSIVE Pow2(_)
Pow2(n) == IF n = 0 THEN 1 ELSE 2 * Pow2(n - 1)

\* h with bit b of byte p cleared
ClearBit(h, p, b) ==
    [h EXCEPT ![p] = IF (h[p] \div Pow2(b)) % 2 = 1 THEN h[p] - Pow2(b) ELSE h[p]]

\* a hex text and what a caller may make of it: upper case, a character
\* short, a byte short, a byte long, a character that is no hex digit, nothing
HexVariants(t) ==
    { t,
      [k \in 1..Len(t) |-> ToUpper(t[k])],
      SubSeq(t, 1, Len(t) - 1),
      SubSeq(t, 1, Len(t) - 2),
      t \o <<102, 102>>,
      Put(t, 0, <<103>>),
      Put(t, Len(t) - 1, <<71>>),
      <<>> }

\* sig := g.Sign(d)
DoSign ==
    \E d \in SignData, digest \in Digests :
        /\ op.name = "none"
        /\ in' = d
        /\ sum' = IF Len(d) = 0 THEN ZeroSum ELSE digest
        /\ out' = Sign(g, d, digest)
        /\ op' = Call("Sign", <<>>)
        /\ UNCHANGED <<g, parsed, signed, other>>

\* ok := g.DidSign(s), s the signature, a variant of it, the hex text of a
\* sum nobody signed, or the signature's sum with one bit cleared
DoDidSign ==
    /\ op.name = "Sign"
    /\ \E s \in UNION {HexVariants(HexEncode(h, shaSize)) : h \in {Fold(g, sum)} \cup Digests}
              \cup {HexEncode(ClearBit(Fold(g, sum), p, b), shaSize) :
                      p \in 0..(shaSize - 1), b \in 0..7} :
          /\ in' = s
          /\ signed' = DidSign(g, s)
    /\ op' = Call("DidSign", <<>>)
    /\ UNCHANGED <<g, out, parsed, sum, other>>

InitSign ==
    /\ g \in SignGUIDs
    /\ op = NoCall
    /\ in = <<>>
    /\ out = <<>>
    /\ parsed = NoParse
    /\ sum = ZeroSum
    /\ signed = FALSE
    /\ other = ZeroGUID

NextSign == DoSign \/ DoDidSign

SpecSign == InitSign /\ [][NextSign]_vars

----------
(* Claims checked under Spec: building a GUID, String, Slug, Parse back *)

\* the timestamp of g is one String writes in 8 base36 digits
TimeInText(x) ==
    LET msec == Varint(Slice(x, tsStart, tsEnd))
    IN ~msec.neg /\ Len(FormatInt(msec, base)) <= 2 * fieldSize

\* C1 (under SpecInRange): Parse(g.String()) succeeds and returns g byte for
\* byte, for every GUID built from the zero GUID by setter calls with field
\* values of [0, 1679616).
C1_RoundTrip == op.name = "Parse" => parsed = [g |-> g, err |-> ErrNone]

\* C4: whatever int32 is handed to SetFingerprint, SetCounters or SetRandom,
\* the getter returns it modulo 1679616, a value of [0, 1679615], and the
\* field's text in String() has exactly 4 characters.
C4_NumericFiltering ==
    /\ op.name = "SetFingerprint" => Fingerprint(g) = op.args[1] % maxInt
    /\ op.name = "SetCounters" => Counters(g) = <<op.args[1] % maxInt, op.args[2] % maxInt>>
    /\ op.name = "SetRandom" => Random(g) = op.args[1] % maxInt
    /\ \A v \in {Fingerprint(g), Counters(g)[1], Counters(g)[2], Random(g)} :
          v >= 0 /\ v <= maxInt - 1
    /\ \A f \in {fpStart, icStart, dcStart, rdStart} :
          Len(FieldText(g, f, f + fieldSize, fieldSize)) = fieldSize
    /\ op.name = "String" =>
          Len(out) = 2 + Len(FieldText(g, tsStart, tsEnd, 2 * fieldSize)) + 4 * fieldSize

\* C4's case: the three setters were called with a value of maxInt or more
\* and with a negative one
C4_Witness ==
    /\ op = Call("SetCounters", <<maxInt, -1>>)
    /\ Fingerprint(g) = maxInt - 1
    /\ Random(g) = MaxInt32 % maxInt
    /\ Counters(g) = <<0, maxInt - 1>>

\* C5: String() returns exactly 26 characters for every GUID the setters
\* build, whatever time was handed to SetTime.
C5_StringLength == op.name = "String" => Len(out) = byteSize

\* the positions of the text form C8 names
C8Positions == <<6, 7, 8, 9, 16, 17, 20, 21, 22, 23, 24, 25>>

\* C8: the slug has 12 characters, those of g.String() at the positions
\* 6,7,8,9,16,17,20,21,22,23,24,25 in that order, so a GUID whose text differs
\* from g's at other positions only (the prefix, the fingerprint) has the
\* same slug.
C8_SlugMapping ==
    op.name = "Slug" =>
        /\ Len(out) = 12
        /\ \A k \in 1..12 : out[k] = At(String(g), C8Positions[k])
        /\ \A b \in PrefixInputs \cup {<<0, 0>>} :
              Slug(WithPrefixBytes(g, b[1], b[2])) = out

C8_Witness ==
    /\ op.name = "Slug"
    /\ String(g) = <<120, 111, 107, 112, 56, 108, 56, 53, 110, 50, 48, 49, 112,
                     113, 48, 48, 100, 119, 48, 48, 114, 115, 54, 114, 103, 113>>
    /\ out = <<56, 53, 110, 50, 100, 119, 114, 115, 54, 114, 103, 113>>

\* the 2nd and 3rd characters of the fingerprint field of the text form
FingerprintMiddle(x) == <<At(String(x), fpStart + 1), At(String(x), fpStart + 2)>>

\* C9 as stated: the slug keeps the 2nd and 3rd characters of the
\* fingerprint, so GUIDs that differ in them have different slugs.
C9_SlugKeepsFingerprint ==
    op.name = "Slug" =>
        \A v \in FingerprintInputs :
            FingerprintMiddle(SetFingerprint(g, v)) # FingerprintMiddle(g)
                => Slug(SetFingerprint(g, v)) # out

\* C9 amended: the slug keeps no character of the fingerprint; GUIDs that
\* differ in the fingerprint only have the same slug.
C9_SlugDropsFingerprint ==
    op.name = "Slug" =>
        \A v \in FingerprintInputs : Slug(SetFingerprint(g, v)) = out

C9_Witness ==
    /\ op.name = "Slug"
    /\ TimeInText(g)
    /\ \E v \in FingerprintInputs :
          FingerprintMiddle(SetFingerprint(g, v)) # FingerprintMiddle(g)

----------------------------------------------------------------------------
(* Claims checked under SpecParse *)

\* C3: Parse of a byte sequence whose length is not 26 (shorter, longer, 26
\* characters of which one takes several bytes) returns the length error and
\* the zero GUID, whatever its fields hold.
C3_LengthValidation ==
    (op.name = "Parse" /\ Len(in) # 26) => parsed = [g |-> ZeroGUID, err |-> ErrLength]

\* C3's case: the 26 characters of the tests with a 4-byte one, 29 bytes
C3_Witness ==
    /\ op.name = "Parse"
    /\ Len(in) = 29
    /\ SubSeq(in, 15, 18) = Monkey
    /\ parsed.err = ErrLength

\* the characters of a base36 integer: digits and letters of either case
Base36Chars == (48..57) \cup (65..90) \cup (97..122)

\* s is a base36 integer: an optional sign, then digits only, one at least
IsInteger36(s) ==
    LET body == IF s # <<>> /\ s[1] \in {43, 45} THEN Tail(s) ELSE s
    IN body # <<>> /\ \A k \in 1..Len(body) : body[k] \in Base36Chars

\* the fields of the text form in the order of C6, with their errors
C6Fields == << [from |-> 2, to |-> 10, err |-> ErrTime],
               [from |-> 10, to |-> 14, err |-> ErrFingerprint],
               [from |-> 14, to |-> 18, err |-> ErrIncr],
               [from |-> 18, to |-> 22, err |-> ErrDecr],
               [from |-> 22, to |-> 26, err |-> ErrRandom] >>

Offending(s) == {k \in 1..5 : ~IsInteger36(Sub(s, C6Fields[k].from, C6Fields[k].to))}

FirstOffending(s) == CHOOSE k \in Offending(s) : \A j \in Offending(s) : k <= j

\* C6: when a field of a 26-byte input is no base36 integer, Parse returns
\* the zero GUID and the error of the first such field in the order
\* timestamp, fingerprint, increment, decrement, random.
C6_FirstFieldError ==
    (op.name = "Parse" /\ Len(in) = 26 /\ Offending(in) # {}) =>
        parsed = [g |-> ZeroGUID, err |-> C6Fields[FirstOffending(in)].err]

\* C6's case: both counters are malformed and the increment one is reported
C6_Witness ==
    /\ op.name = "Parse"
    /\ Len(in) = 26
    /\ Offending(in) = {3, 4}
    /\ parsed.err = ErrIncr

\* C7: if Parse succeeds on a text, it returns the same GUID for the text
\* with letters at positions 2..25 in the other case; with a prefix letter in
\* the other case it returns a GUID that differs in that prefix byte only,
\* which is the byte of the text.
C7_CaseInsensitive ==
    (op.name = "Parse" /\ parsed.err = ErrNone) =>
        /\ \A ps \in {{p} : p \in 2..25} \cup {2..25} :
              Parse(SwapCaseAt(in, ps)) = parsed
        /\ Parse([k \in 1..Len(in) |-> IF k > 2 THEN ToUpper(in[k]) ELSE in[k]]) = parsed
        /\ Parse([k \in 1..Len(in) |-> IF k > 2 THEN ToLower(in[k]) ELSE in[k]]) = parsed
        /\ parsed.g[0] = At(in, 0) /\ parsed.g[1] = At(in, 1)
        /\ \A p \in 0..1 :
              Parse(SwapCaseAt(in, {p})) =
                  [g |-> [parsed.g EXCEPT ![p] = SwapCase(At(in, p))], err |-> ErrNone]

\* C7's case: a text in upper case, prefix included, was parsed
C7_Witness ==
    /\ op.name = "Parse"
    /\ parsed.err = ErrNone
    /\ in = SwapCaseAt(TestText, 0..25)
    /\ parsed.g = [Parse(TestText).g EXCEPT ![0] = 88, ![1] = 79]

----------------------------------------------------------------------------
(* Claims checked under SpecSign *)

\* C2: for every GUID and every non-empty data, DidSign of the signature
\* Sign returned is true, whatever the SHA-256 sum of the data is.
C2_SignDidSign ==
    /\ (op.name = "Sign" /\ in # <<>>) => DidSign(g, out)
    /\ (op.name = "DidSign" /\ out # <<>> /\ in = out) => signed

\* the signature signer_test.go expects of "music television" signed by
\* "tjl77zbrfh43jk00qs4un0qr57"
MusicSignature ==
    <<98, 102, 98, 98, 101, 54, 57, 98, 102, 97, 54, 53, 102, 101, 102, 102,
      101, 57, 102, 98, 49, 55, 49, 102, 102, 55, 54, 101, 50, 52, 54, 98,
      97, 49, 102, 101, 53, 99, 49, 55, 98, 102, 56, 102, 57, 102, 57, 51,
      98, 97, 100, 51, 57, 98, 51, 53, 102, 54, 97, 102, 57, 102, 55, 100>>

\* C2's case: the signature of the tests was made and verified
C2_Witness ==
    /\ op.name = "DidSign"
    /\ g = Parse(TjlText).g
    /\ sum = MusicSum
    /\ out = MusicSignature
    /\ in = out
    /\ signed

LowerHexChars == (48..57) \cup (97..102)
HexChars == LowerHexChars \cup (65..70)

\* s is hex text that decodes to n bytes
DecodesTo(s, n) == Len(s) = 2 * n /\ \A k \in 1..Len(s) : s[k] \in HexChars

\* C10: Sign returns nothing exactly when the data is empty and 64 lowercase
\* hex characters otherwise; DidSign is false of whatever is no hex text or
\* does not decode to exactly 32 bytes, for every GUID.
C10_FailClosed ==
    /\ op.name = "Sign" =>
          /\ (out = <<>>) <=> (in = <<>>)
          /\ in # <<>> => (Len(out) = 64 /\ \A k \in 1..64 : out[k] \in LowerHexChars)
    /\ (op.name = "DidSign" /\ ~DecodesTo(in, 32)) => ~signed

\* C10's case: the zero GUID is asked about 33 bytes of well-formed hex
C10_Witness ==
    /\ op.name = "DidSign"
    /\ g = ZeroGUID
    /\ DecodesTo(in, 33)
    /\ ~signed

\* the pairs <<p, q>> of Sign: digest byte p takes GUID byte q
FoldPairs ==
    {<<i - 2, i>> : i \in 2..13} \cup {<<j, j - 6>> : j \in 20..31} \cup {<<12, 0>>, <<13, 1>>}

\* x and y are the same on bytes 0..13: prefix, timestamp and fingerprint
SameHead(x, y) == \A i \in 0..(fpEnd - 1) : x[i] = y[i]

\* C11 as stated: GUID bytes 14-25 never influence the signature, so GUIDs
\* that agree on bytes 0-13 sign the same data with the same signature.
C11_TailNeverFolded ==
    (op.name = "Sign" /\ in # <<>>) =>
        \A x \in SignGUIDs : SameHead(x, g) => Sign(x, in, sum) = out

\* C11 amended: the signature is the hex text of the digest with GUID byte q
\* ORed into digest byte p for every pair of FoldPairs, bytes 14-25 of the
\* GUID among them (into digest bytes 20-31), and the digest bytes 14-19 as
\* they were; GUIDs that agree on all 26 bytes sign alike.
C11_AllBytesFolded ==
    (op.name = "Sign" /\ in # <<>>) =>
        /\ HexDecode(out).ok
        /\ \A p \in 0..(shaSize - 1) :
              /\ \A q \in 0..(byteSize - 1) :
                    <<p, q>> \in FoldPairs =>
                        And8(HexDecode(out).sum[p], Or8(sum[p], g[q])) = Or8(sum[p], g[q])
              /\ \A b \in 0..7 :
                    (HexDecode(out).sum[p] \div Pow2(b)) % 2 = 1 =>
                        \/ (sum[p] \div Pow2(b)) % 2 = 1
                        \/ \E q \in 0..(byteSize - 1) :
                              <<p, q>> \in FoldPairs /\ (g[q] \div Pow2(b)) % 2 = 1
        /\ \A q \in icStart..(rdEnd - 1) : \E p \in 0..(shaSize - 1) : <<p, q>> \in FoldPairs

\* C11's case: the two GUIDs of the tests under one prefix, the same on
\* bytes 0-13, sign "music television" with different signatures
C11_Witness ==
    /\ op.name = "Sign"
    /\ in # <<>>
    /\ sum = MusicSum
    /\ g = Parse(TjlText).g
    /\ \E x \in SignGUIDs : SameHead(x, g) /\ Sign(x, in, sum) # out

\* C12: for a text that decodes to 32 bytes h, DidSign is true exactly when
\* h[p] & g[q] == g[q] for every pair of Sign's fold; the signature with one
\* bit cleared that the GUID set at a folded position is refused, and the
\* digest of ones is accepted by every GUID.
C12_ChecksWhatSignFolds ==
    (op.name = "DidSign" /\ DecodesTo(in, shaSize)) =>
        LET given == HexDecode(in).sum
            folded == Fold(g, sum)
        IN /\ signed <=> \A pq \in FoldPairs : And8(given[pq[1]], g[pq[2]]) = g[pq[2]]
           /\ \A pq \in FoldPairs, b \in 0..7 :
                 ((g[pq[2]] \div Pow2(b)) % 2 = 1 /\ given = ClearBit(folded, pq[1], b))
                     => ~signed
           /\ given = OnesSum => signed

\* C12's case: the signature of the tests with its last hex digit changed
\* from d to c, which clears bit 0 of digest byte 31
C12_Witness ==
    /\ op.name = "DidSign"
    /\ g = Parse(TjlText).g
    /\ out = MusicSignature
    /\ in = [out EXCEPT ![64] = 99]
    /\ ~signed

\* what the getter of the field that setter f writes returns
Getter(x, f) ==
    CASE f = "WithPrefixBytes" -> PrefixBytes(x)
      [] f = "SetTime"         -> Time(x)
      [] f = "SetFingerprint"  -> Fingerprint(x)
      [] f = "SetCounters"     -> Counters(x)
      [] f = "SetRandom"       -> Random(x)

\* a time truncated to milliseconds, in nanoseconds
TruncatedToMillis(t) == Big(t.neg, MulAdd(DivMod(t.mag, nanosPerMilli).q, nanosPerMilli, 0))

InRange(v) == v >= 0 /\ v < maxInt

AllZero(x, from, to) == \A i \in from..(to - 1) : x[i] = 0

\* C14: after any sequence of setter calls from the zero GUID, Fingerprint(),
\* Counters() and Random() return the value last set (of [0, 1679616)), Time()
\* the time last set truncated to milliseconds, and a field of zero bytes
\* reads as zero, whatever was in the field before: a getter returns what
\* was set right after the call, and no later call of another setter, of
\* String, Slug or Parse changes what it returns.
C14_LastWriteWins ==
    /\ [](/\ op.name = "SetTime" => Time(g) = TruncatedToMillis(op.args[1])
          /\ (op.name = "SetFingerprint" /\ InRange(op.args[1])) =>
                 Fingerprint(g) = op.args[1]
          /\ (op.name = "SetCounters" /\ InRange(op.args[1]) /\ InRange(op.args[2])) =>
                 Counters(g) = op.args
          /\ (op.name = "SetRandom" /\ InRange(op.args[1])) => Random(g) = op.args[1]
          /\ op.name = "WithPrefixBytes" => PrefixBytes(g) = op.args
          /\ AllZero(g, tsStart, tsEnd) => Time(g) = BigZero
          /\ AllZero(g, fpStart, fpEnd) => Fingerprint(g) = 0
          /\ AllZero(g, icStart, icEnd) => Counters(g)[1] = 0
          /\ AllZero(g, dcStart, dcEnd) => Counters(g)[2] = 0
          /\ AllZero(g, rdStart, rdEnd) => Random(g) = 0)
    /\ [][\A f \in Setters : op'.name # f => Getter(g', f) = Getter(g, f)]_vars

\* C14's case: the fingerprint 2222 and the counters 500, 1000 were set over
\* longer encodings, whose last bytes are still in the fields
C14_Witness ==
    /\ op = Call("SetFingerprint", <<2222>>)
    /\ g[fpStart + 2] # 0
    /\ Fingerprint(g) = 2222
    /\ g[dcStart + 2] # 0
    /\ Counters(g) = <<500, 1000>>
    /\ g[tsStart + 1] # 0
    /\ Time(g) = TruncatedToMillis(Dec(TRUE, <<1, 9, 9, 9, 9, 9, 9>>))

\* C15 (under SpecInRange): a setter overwrites its whole field: for every
\* GUID and in-range values a and b, setting a and then b gives the GUID
\* that setting b alone gives, byte for byte, for SetTime, SetFingerprint,
\* SetCounters and SetRandom; the bytes of a field after a set are those the
\* value set gives in an empty field.
C15_SetterOverwrites ==
    /\ \A a \in ValidTimes, b \in ValidTimes :
          SetTime(SetTime(g, a), b) = SetTime(g, b)
    /\ \A a \in ValidFingerprints, b \in ValidFingerprints :
          SetFingerprint(SetFingerprint(g, a), b) = SetFingerprint(g, b)
    /\ \A a \in ValidCounters, b \in ValidCounters :
          SetCounters(SetCounters(g, a[1], a[2]), b[1], b[2]) = SetCounters(g, b[1], b[2])
    /\ \A a \in ValidRandoms, b \in ValidRandoms :
          SetRandom(SetRandom(g, a), b) = SetRandom(g, b)
    /\ op.name = "SetTime" =>
          Slice(g, tsStart, tsEnd) = Slice(SetTime(ZeroGUID, op.args[1]), tsStart, tsEnd)
    /\ op.name = "SetFingerprint" =>
          Slice(g, fpStart, fpEnd) = Slice(SetFingerprint(ZeroGUID, op.args[1]), fpStart, fpEnd)
    /\ op.name = "SetCounters" =>
          Slice(g, icStart, dcEnd) =
              Slice(SetCounters(ZeroGUID, op.args[1], op.args[2]), icStart, dcEnd)
    /\ op.name = "SetRandom" =>
          Slice(g, rdStart, rdEnd) = Slice(SetRandom(ZeroGUID, op.args[1]), rdStart, rdEnd)

\* the text String returns for s when s is its canonical form up to case:
\* s with the letters at positions 2-25 in lower case
Canonical(s) == [k \in 1..Len(s) |-> IF k <= tsStart THEN s[k] ELSE ToLower(s[k])]

\* C17 (under SpecParse): for every 26-byte input on which Parse succeeds,
\* the String() of the GUID Parse returns is the input with the letters at
\* positions 2-25 in lower case and positions 0-1 as they are.
C17_CanonicalRoundTrip ==
    (op.name = "Parse" /\ parsed.err = ErrNone /\ Len(in) = byteSize) =>
        String(parsed.g) = Canonical(in)

----------------------------------------------------------------------------
(* Claims checked under SpecBinary *)

\* C16: for every GUID the setters build, UnmarshalBinary of what
\* MarshalBinary returned and GobDecode of what GobEncode returned succeed
\* and leave the receiver equal to the GUID.
C16_BinaryRoundTrip ==
    op.name \in {"UnmarshalBinary", "GobDecode"} => (parsed.err = ErrNone /\ other = g)

----------------------------------------------------------------------------
(* Claims checked under SpecFrame *)

\* the bytes a setter may write: its own field
TargetRange ==
    [WithPrefixBytes |-> 0..(tsStart - 1),
     SetTime         |-> tsStart..(tsEnd - 1),
     SetFingerprint  |-> fpStart..(fpEnd - 1),
     SetCounters     |-> icStart..(dcEnd - 1),
     SetRandom       |-> rdStart..(rdEnd - 1)]

\* C13: a call of WithPrefixBytes, SetTime, SetFingerprint, SetCounters or
\* SetRandom leaves the GUID it was called on as it was, and the GUID it
\* returns has the bytes of that GUID outside 0-1, 2-9, 10-13, 14-21, 22-25
\* respectively.
C13_SettersFrame ==
    [][op'.name \in Setters =>
          /\ g' = g
          /\ \A i \in (0..(byteSize - 1)) \ TargetRange[op'.name] : other'[i] = g[i]]_vars

\* C13's case: SetCounters was called on a GUID with a prefix, a time, a
\* fingerprint and a random value, and returned another GUID
C13_Witness ==
    /\ op.name = "SetCounters"
    /\ other # g
    /\ \A f \in {0, tsStart, fpStart, rdStart} : g[f] # 0
    /\ Counters(g) = <<0, 0>>
    /\ Counters(other) # <<0, 0>>

====
